---- MODULE Spec2Model ----
(***************************************************************************)
(* Model of script.py (X2Discord): one run of main() polls the search      *)
(* provider for every configured (query, channel) pair, filters the        *)
(* fetched tweets, sends the survivors to the channel's webhook and        *)
(* appends their identifiers to sent_tweets.txt.  Runs repeat (cron).      *)
(*                                                                         *)
(* Text is modelled as a sequence of Unicode code points, so that the      *)
(* formatting f"{tweet_id}\n" and the parsing {line.strip() for line in f} *)
(* are computed and not assumed to be inverse to each other.  Newlines are *)
(* those of a POSIX host: text mode writes "\n" as it is.                  *)
(***************************************************************************)
EXTENDS Integers, Sequences, FiniteSets, TLC

VARIABLES
    config,          \* the parsed config.json (line 156), read-only
    env_token,       \* os.getenv(BEARER_TOKEN_ENV_VAR) (line 159)
    file,            \* sent_tweets.txt: [exists, content]
    io,              \* [read]: whether load_sent_tweet_ids of this run could read
    faults,          \* number of failed reads, deliveries and writes so far
    unwritten,       \* history: identifiers whose save_sent_tweet_id failed this run
    spliced,         \* history: identifiers of this run whose line was appended to
                     \* the unterminated remainder of a failed write
    run,             \* number of runs of main() started so far
    pc,              \* position of the current run inside main()
    today,           \* datetime.now(timezone.utc).date() (line 195)
    sent_tweet_ids,  \* the local set of main() (lines 157, 203, 227)
    pairIdx,         \* index of the (query, channel) pair of the outer loop
    tweets,          \* the provider's response for the pair (line 182)
    idx,             \* index of the tweet of the inner loop (line 196)
    sent_count,      \* line 194
    loaded,          \* history: what load_sent_tweet_ids returned at startup
    startIds,        \* history: the identifiers in the durable record at startup
    sendLog,         \* history: normal-mode send_to_discord calls of this run
    savedRun,        \* history: identifiers passed to save_sent_tweet_id this run
    savedBefore,     \* history: the same, for the earlier runs
    failedRun,       \* history: identifiers whose delivery failed this run
    failedBefore,    \* history: the same, for the earlier runs
    fetched,         \* history: <<pair index, query>> of each provider fetch
    errNotifs,       \* history: error-mode send_to_discord calls of this run
    queryBuilds,     \* history: calls of build_twitter_query of this run
    fault,           \* history: pair index at which a fault was raised, or 0
    exitStatus,      \* process exit status of the run, -1 while it runs
    twitter_bearer_token  \* the local of line 159, None before it is computed

vars == <<config, env_token, file, io, faults, unwritten, spliced, run, pc, today, sent_tweet_ids, pairIdx,
          tweets, idx, sent_count, loaded, startIds, sendLog, savedRun,
          savedBefore, failedRun, failedBefore, fetched, errNotifs, queryBuilds,
          fault, exitStatus, twitter_bearer_token>>

-----------------------------------------------------------------------------
(* Bounds *)

\* runs of main()
MaxRuns == 2
\* calls of save_sent_tweet_id in SpecRoundTrip
MaxWrites == 3
\* failed reads of the record, failed deliveries and failed writes, together,
\* in one behaviour of Spec
MaxFaults == 1

(* Program constants *)

SendCap == 5

-----------------------------------------------------------------------------
(* Text *)

\* code points
NL == 10
CR == 13
Quote == 34

\* the characters str.strip() removes: those for which str.isspace() holds
Whitespace ==
    (9..13) \cup (28..32) \cup {133, 160, 5760} \cup (8192..8202)
       \cup {8232, 8233, 8239, 8287, 12288}

\* the code points of "0" .. "9"
Digits == <<48, 49, 50, 51, 52, 53, 54, 55, 56, 57>>

RECURSIVE Str(_)
\* str(tweet.id) / f"{tweet_id}": the decimal digits of a non-negative integer
Str(n) == IF n < 10 THEN <<Digits[n + 1]>>
          ELSE Str(n \div 10) \o <<Digits[(n % 10) + 1]>>

RECURSIVE LStrip(_)
LStrip(s) == IF s # <<>> /\ Head(s) \in Whitespace THEN LStrip(Tail(s)) ELSE s

RECURSIVE RStrip(_)
RStrip(s) == IF s # <<>> /\ s[Len(s)] \in Whitespace
             THEN RStrip(SubSeq(s, 1, Len(s) - 1)) ELSE s

\* str.strip()
Strip(s) == RStrip(LStrip(s))

RECURSIVE UniversalNewlines(_)
\* open(..., 'r') reads with universal newlines: "\r\n" and a lone "\r" reach
\* the program as "\n"
UniversalNewlines(s) ==
    IF s = <<>> THEN <<>>
    ELSE IF Head(s) = CR
         THEN IF Len(s) >= 2 /\ s[2] = NL
              THEN <<NL>> \o UniversalNewlines(Tail(Tail(s)))
              ELSE <<NL>> \o UniversalNewlines(Tail(s))
    ELSE <<Head(s)>> \o UniversalNewlines(Tail(s))

RECURSIVE SplitLines(_, _)
\* the lines of a translated text, each with its terminator; cur is the line
\* being read
SplitLines(s, cur) ==
    IF s = <<>> THEN (IF cur = <<>> THEN {} ELSE {cur})
    ELSE IF Head(s) = NL THEN {Append(cur, NL)} \cup SplitLines(Tail(s), <<>>)
    ELSE SplitLines(Tail(s), Append(cur, Head(s)))

\* "for line in f" on the text of the file; cur is the line being read
FileLines(s, cur) == SplitLines(UniversalNewlines(s), cur)

-----------------------------------------------------------------------------
(* Seen-Set Store *)

NoFile == [exists |-> FALSE, content |-> <<>>]

load_sent_tweet_ids_unstripped(f, readOK) ==
    IF ~f.exists THEN {}
    ELSE IF ~readOK THEN {}
    ELSE {l \in FileLines(f.content, <<>>) : Strip(l) # <<>>}

\* load_sent_tweet_ids: the set of stripped non-blank lines; the empty set when
\* the file is absent or cannot be read
load_sent_tweet_ids(f, readOK) ==
    IF ~f.exists THEN {}
    ELSE IF ~readOK THEN {}
    ELSE {Strip(l) : l \in {m \in FileLines(f.content, <<>>) : Strip(m) # <<>>}}

\* the text save_sent_tweet_id writes: f"{tweet_id}\n"
SaveLineNoTerminator(id) == Str(id)
SaveLine(id) == Append(Str(id), NL)

\* what a call of save_sent_tweet_id meets: open() raises (permissions, a
\* directory in the way) and nothing is written, or open() succeeds and
\* `written` characters of the line reach the file; when that is less than the
\* whole line the write raised (disk full, file size limit) after them
WriteOutcomes(id) ==
    {[opened |-> FALSE, written |-> 0]}
       \cup {[opened |-> TRUE, written |-> k] : k \in 0..Len(SaveLine(id))}

\* the call raised nothing
WriteOK(id, outcome) == outcome.opened /\ outcome.written = Len(SaveLine(id))

\* the outcome of a call that raises nothing
OkWrite(id) == [opened |-> TRUE, written |-> Len(SaveLine(id))]

\* save_sent_tweet_id: open(..., 'a') creates the file when it is absent, the
\* write appends the line; an exception of either step is logged, and what
\* had reached the file before it stays there
save_sent_tweet_id(f, id, outcome) ==
    IF ~outcome.opened THEN f
    ELSE [exists |-> TRUE,
          content |-> f.content \o SubSeq(SaveLine(id), 1, outcome.written)]

\* the record ends with a line terminator, or is empty: an appended line
\* starts a line of its own
Clean(f) == f.content = <<>> \/ f.content[Len(f.content)] = NL

-----------------------------------------------------------------------------
(* Query Builder.  main() never calls it: the key of keyword_channels goes to
   the provider as it is (line 183), which is why no action below applies
   build_twitter_query and the counter queryBuilds stays 0. *)

\* the code points of ' ', '#', '@', '$', ':', '(', ')', '[', ']', '{', '}',
\* '"' and "'"
QuoteTriggers == {32, 35, 64, 36, 58, 40, 41, 91, 93, 123, 125, Quote, 39}

\* lines 59-62: a keyword holding a blank or one of the listed characters is
\* wrapped in double quotes
FormatKeyword(k) ==
    IF \E c \in 1..Len(k) : k[c] \in QuoteTriggers
    THEN <<Quote>> \o k \o <<Quote>>
    ELSE k

RECURSIVE Join(_, _)
\* sep.join(list)
Join(sep, list) ==
    IF list = <<>> THEN <<>>
    ELSE IF Len(list) = 1 THEN list[1]
    ELSE list[1] \o sep \o Join(sep, Tail(list))

\* lines 51-70
build_twitter_query(keywords, logic) ==
    LET formatted_keywords == [c \in 1..Len(keywords) |-> FormatKeyword(keywords[c])]
    IN  IF keywords = <<>> THEN <<>>
        ELSE IF logic = "AND" THEN Join(<<32>>, formatted_keywords)
        ELSE Join(<<32, 79, 82, 32>>, formatted_keywords)

-----------------------------------------------------------------------------
(* Python values *)

None == "<None>"

\* truth value of a token or URL: None and the empty string are falsy
Truthy(x) == x # None /\ x # ""

\* dict.get(k, default); a dict is a function on its keys, {} is <<>>
Get(d, k, default) == IF k \in DOMAIN d THEN d[k] ELSE default

\* str.lower() on the handles that occur
Lower(u) == CASE u = "Alice" -> "alice"
              [] u = "BOB" -> "bob"
              [] u = "Carol" -> "carol"
              [] OTHER -> u

\* the elements of a list
Elems(s) == {s[k] : k \in 1..Len(s)}

-----------------------------------------------------------------------------
(* The provider's data: authors, tweets and responses *)

Days == {1, 2}

UserTable ==
    [u1 |-> [name |-> "Alice A", username |-> "Alice", verified |-> FALSE,
             public_metrics |-> [followers_count |-> 300]],
     u2 |-> [name |-> "Bob B", username |-> "bob", verified |-> TRUE,
             public_metrics |-> [followers_count |-> 1000]],
     u3 |-> [name |-> "Carol C", username |-> "Carol", verified |-> TRUE,
             public_metrics |-> <<>>]]

\* a tweet of tweets.data; created_at 0 stands for a missing created_at
Tweet(id, author, day) == [id |-> id, author_id |-> author, created_at |-> day]

\* ten tweets of a verified author, and one of an unverified author
RCapData == <<Tweet(7, "u2", 1), Tweet(2, "u2", 1), Tweet(16, "u1", 1),
              Tweet(9, "u2", 1), Tweet(4, "u2", 1), Tweet(1, "u2", 1),
              Tweet(10, "u2", 1), Tweet(3, "u2", 1), Tweet(8, "u2", 1),
              Tweet(5, "u2", 1), Tweet(6, "u2", 1)>>

RMixData == <<Tweet(11, "u1", 1), Tweet(12, "u2", 0), Tweet(3, "u2", 1),
              Tweet(13, "u3", 1), Tweet(3, "u2", 1), Tweet(14, "u2", 2),
              Tweet(15, "u4", 1)>>

NoResponse == [data |-> <<>>, users |-> {}]

\* what the provider may answer to a query: tweets.data and the author ids
\* of tweets.includes['users']
Responses(q) ==
    IF q = "zig"
    THEN {[data |-> RCapData, users |-> {"u1", "u2"}]}
    ELSE {[data |-> <<>>, users |-> {}],
          [data |-> RMixData, users |-> {"u1", "u2", "u3"}]}

-----------------------------------------------------------------------------
(* Configuration *)

Channel(q, hook, uf) == [query |-> q, discord_webhook_url |-> hook, user_filters |-> uf]

\* keyword_channels is a list here: a dict iterates in insertion order
Configs ==
    {[twitter_bearer_token |-> None, notifications_webhook_url |-> "hook0",
      global_filters |-> [min_followers |-> 100],
      keyword_channels |-> <<Channel("rust", "hook1", [min_followers |-> 500]),
                             Channel("#tla", "hook2", <<>>)>>],
     [twitter_bearer_token |-> None, notifications_webhook_url |-> None,
      global_filters |-> [whitelist_usernames |-> <<"Alice", "BOB">>,
                          blacklist_usernames |-> <<"alice">>],
      keyword_channels |-> <<Channel("go lang", "hook1", [only_verified |-> TRUE])>>],
     [twitter_bearer_token |-> "", notifications_webhook_url |-> "",
      global_filters |-> <<>>,
      keyword_channels |-> <<Channel("zig", "hook1", [only_verified |-> TRUE,
                                                     min_followers |-> 0])>>],
     [twitter_bearer_token |-> "cfgtok", notifications_webhook_url |-> "hook0",
      global_filters |-> <<>>,
      keyword_channels |-> <<>>]}

EnvTokens == {None, "", "envtok"}

\* line 159: os.getenv(...) or config.get("twitter_bearer_token")
ResolveTokenConfigFirst(env, cfg) == IF Truthy(cfg) THEN cfg ELSE env
ResolveToken(env, cfg) == IF Truthy(env) THEN env ELSE cfg

\* lines 176-177: global_filters.copy() updated with the channel's user_filters
MergeFiltersGlobalWins(g, c) ==
    [k \in DOMAIN g \cup DOMAIN c |-> IF k \in DOMAIN g THEN g[k] ELSE c[k]]
MergeFilters(g, c) ==
    [k \in DOMAIN g \cup DOMAIN c |-> IF k \in DOMAIN c THEN c[k] ELSE g[k]]

\* lines 178-181: the effective filter values of a pair
Filters(cfg, p) ==
    LET uf == MergeFilters(cfg.global_filters, cfg.keyword_channels[p].user_filters)
    IN  [min_followers |-> Get(uf, "min_followers", 0),
         only_verified |-> Get(uf, "only_verified", FALSE),
         whitelist |-> {Lower(u) : u \in Elems(Get(uf, "whitelist_usernames", <<>>))},
         blacklist |-> {Lower(u) : u \in Elems(Get(uf, "blacklist_usernames", <<>>))}]

\* lines 200-216: the first check of the inner loop that skips the tweet, in
\* the order of the code, or "none" when the tweet is to be sent
SkipReason(t, users, seen, f, day) ==
    IF t.created_at # day THEN "date"
    ELSE IF Str(t.id) \in seen THEN "seen"
    ELSE IF t.author_id \notin users THEN "author"
    ELSE LET author == UserTable[t.author_id]
             username == Lower(author.username)
         IN  IF f.whitelist # {} /\ username \notin f.whitelist THEN "whitelist"
             ELSE IF f.blacklist # {} /\ username \in f.blacklist THEN "blacklist"
             ELSE IF f.min_followers # 0
                     /\ Get(author.public_metrics, "followers_count", 0) < f.min_followers
                  THEN "followers"
             ELSE IF f.only_verified /\ ~author.verified THEN "verified"
             ELSE "none"

\* line 197: the per-pair cap
CapReachedOffByOne(n) == n > SendCap
CapReached(n) == n >= SendCap

-----------------------------------------------------------------------------
(* main() *)

Running == {"config", "creds", "client", "notify", "exit1", "pairs", "item",
            "send", "save", "add"}
Ended == {"idle", "done", "no_config", "exited", "aborted", "crashed"}

Pairs == config.keyword_channels
CurTweet == tweets.data[idx]
SentIds == {sendLog[k].id : k \in 1..Len(sendLog)}

\* the tweet identifiers of the provider's data
AllIds == {RCapData[k].id : k \in 1..Len(RCapData)} \cup {RMixData[k].id : k \in 1..Len(RMixData)}

\* the durable record holds the identifier: its digits are a line of the
\* record, from the start of a line to a terminator or to the end of the text
RecordHolds(f, id) ==
    \E k \in 1..Len(f.content) :
        LET e == k + Len(Str(id)) - 1
        IN  /\ k = 1 \/ f.content[k - 1] = NL
            /\ e <= Len(f.content)
            /\ SubSeq(f.content, k, e) = Str(id)
            /\ e = Len(f.content) \/ f.content[e + 1] = NL

\* the identifiers the durable record holds
IdsOf(f) == {x \in AllIds : RecordHolds(f, x)}

InitialFiles == {NoFile, [exists |-> TRUE, content |-> SaveLine(3)]}

Init ==
    /\ config \in Configs
    /\ env_token \in EnvTokens
    /\ file \in InitialFiles
    /\ io = [read |-> TRUE]
    /\ faults = 0
    /\ unwritten = {}
    /\ spliced = {}
    /\ run = 0
    /\ pc = "idle"
    /\ today = 1
    /\ sent_tweet_ids = {}
    /\ pairIdx = 0
    /\ tweets = NoResponse
    /\ idx = 0
    /\ sent_count = 0
    /\ loaded = {}
    /\ startIds = {}
    /\ sendLog = <<>>
    /\ savedRun = {}
    /\ savedBefore = {}
    /\ failedRun = {}
    /\ failedBefore = {}
    /\ fetched = <<>>
    /\ errNotifs = 0
    /\ queryBuilds = 0
    /\ fault = 0
    /\ exitStatus = -1
    /\ twitter_bearer_token = None

\* lines 229-230: a new process enters main(); nothing is loaded yet
StartRun ==
    /\ pc \in Ended
    /\ run < MaxRuns
    /\ run' = run + 1
    /\ io' = [read |-> TRUE]
    /\ sent_tweet_ids' = {}
    /\ loaded' = {}
    /\ startIds' = IdsOf(file)
    /\ unwritten' = {}
    /\ spliced' = {}
    /\ pc' = "config"
    /\ pairIdx' = 0
    /\ tweets' = NoResponse
    /\ idx' = 0
    /\ sent_count' = 0
    /\ sendLog' = <<>>
    /\ savedRun' = {}
    /\ savedBefore' = savedBefore \cup savedRun
    /\ failedRun' = {}
    /\ failedBefore' = failedBefore \cup failedRun
    /\ fetched' = <<>>
    /\ errNotifs' = 0
    /\ queryBuilds' = 0
    /\ fault' = 0
    /\ exitStatus' = -1
    /\ twitter_bearer_token' = None
    /\ UNCHANGED <<config, env_token, file, faults, today>>

\* lines 15-30: config.json is absent (line 19), is not valid JSON (line 27)
\* or cannot be read (line 30): load_config logs and exits with status 1,
\* before the record is loaded and without any notification
LoadConfigFails ==
    /\ pc = "config"
    /\ pc' = "no_config"
    /\ exitStatus' = 1
    /\ UNCHANGED <<config, env_token, file, io, faults, unwritten, spliced, run, today,
                   sent_tweet_ids, pairIdx, tweets, idx, sent_count, loaded,
                   startIds, sendLog, savedRun, savedBefore, failedRun,
                   failedBefore, fetched, errNotifs, queryBuilds, fault,
                   twitter_bearer_token>>

\* lines 156-158: load_config returns the configuration, load_sent_tweet_ids
\* the seen set; a record that exists may turn out unreadable
LoadConfigAndIds ==
    /\ pc = "config"
    /\ \E readOK \in (IF file.exists THEN BOOLEAN ELSE {TRUE}) :
          /\ readOK \/ faults < MaxFaults
          /\ faults' = IF readOK THEN faults ELSE faults + 1
          /\ io' = [read |-> readOK]
          /\ sent_tweet_ids' = load_sent_tweet_ids(file, readOK)
          /\ loaded' = load_sent_tweet_ids(file, readOK)
    /\ pc' = "creds"
    /\ UNCHANGED <<config, env_token, file, unwritten, spliced, run, today, pairIdx,
                   tweets, idx, sent_count, startIds, sendLog, savedRun,
                   savedBefore, failedRun, failedBefore, fetched, errNotifs,
                   queryBuilds, fault, exitStatus, twitter_bearer_token>>

\* lines 164 and 171: exit(1)
Exit1Skipped ==
    /\ exitStatus' = exitStatus
    /\ pc' = "pairs"
    /\ pairIdx' = 1
Exit1 ==
    /\ exitStatus' = 1
    /\ pc' = "exited"
    /\ pairIdx' = pairIdx

\* the token line 159 computes
Token == ResolveToken(env_token, config.twitter_bearer_token)

\* lines 159-162, token missing: the error is logged
NoToken ==
    /\ pc = "creds"
    /\ ~Truthy(Token)
    /\ pc' = "notify"
    /\ twitter_bearer_token' = Token
    /\ UNCHANGED <<config, env_token, file, io, faults, unwritten, spliced, run, today,
                   sent_tweet_ids, pairIdx, tweets, idx, sent_count, loaded,
                   startIds, sendLog, savedRun, savedBefore, failedRun,
                   failedBefore, fetched, errNotifs, queryBuilds, fault, exitStatus>>

\* lines 159-160, token found
HaveToken ==
    /\ pc = "creds"
    /\ Truthy(Token)
    /\ pc' = "client"
    /\ twitter_bearer_token' = Token
    /\ UNCHANGED <<config, env_token, file, io, faults, unwritten, spliced, run, today, sent_tweet_ids, pairIdx,
                   tweets, idx, sent_count, loaded, startIds, sendLog, savedRun,
                   savedBefore, failedRun, failedBefore, fetched, errNotifs,
                   queryBuilds, fault, exitStatus>>

\* lines 165-166 and 172-174: the client is built, the outer loop starts
ClientReady ==
    /\ pc = "client"
    /\ pc' = "pairs"
    /\ pairIdx' = 1
    /\ UNCHANGED <<config, env_token, file, io, faults, unwritten, spliced, run, today, sent_tweet_ids, tweets,
                   idx, sent_count, loaded, startIds, sendLog, savedRun, savedBefore,
                   failedRun, failedBefore, fetched, errNotifs, queryBuilds, fault,
                   exitStatus, twitter_bearer_token>>

\* lines 167-169: tweepy.Client raises, the error is logged
ClientFails ==
    /\ pc = "client"
    /\ pc' = "notify"
    /\ UNCHANGED <<config, env_token, file, io, faults, unwritten, spliced, run, today,
                   sent_tweet_ids, pairIdx, tweets, idx, sent_count, loaded,
                   startIds, sendLog, savedRun, savedBefore, failedRun,
                   failedBefore, fetched, errNotifs, queryBuilds, fault, exitStatus,
                   twitter_bearer_token>>

\* lines 163 and 170, send_error_notification (lines 138-151): one error-mode
\* send_to_discord when the notifications webhook is configured, a log line
\* otherwise; a failed post is caught inside send_to_discord
NotifyFatal ==
    /\ pc = "notify"
    /\ errNotifs' = errNotifs + (IF Truthy(config.notifications_webhook_url) THEN 1 ELSE 0)
    /\ pc' = "exit1"
    /\ UNCHANGED <<config, env_token, file, io, faults, unwritten, spliced, run, today,
                   sent_tweet_ids, pairIdx, tweets, idx, sent_count, loaded,
                   startIds, sendLog, savedRun, savedBefore, failedRun,
                   failedBefore, fetched, queryBuilds, fault, exitStatus,
                   twitter_bearer_token>>

\* lines 164 and 171: the process exits
FatalExit ==
    /\ pc = "exit1"
    /\ Exit1
    /\ UNCHANGED <<config, env_token, file, io, faults, unwritten, spliced, run, today,
                   sent_tweet_ids, tweets, idx, sent_count, loaded, startIds,
                   sendLog, savedRun, savedBefore, failedRun, failedBefore, fetched,
                   errNotifs, queryBuilds, fault, twitter_bearer_token>>

-----------------------------------------------------------------------------
(* The loop over the (query, channel) pairs, lines 174-228 *)

\* line 183: the query passed to search_recent_tweets is the key of the pair;
\* build_twitter_query is not called
FetchQueryOfFirstPair(cfg, p) == cfg.keyword_channels[1].query
FetchQuery(cfg, p) == cfg.keyword_channels[p].query

\* an exception inside the loop body is caught nowhere: the process ends with
\* a traceback and status 1
AbortCaught ==
    /\ fault' = pairIdx
    /\ pc' = "pairs"
    /\ pairIdx' = pairIdx + 1
    /\ exitStatus' = exitStatus
Abort ==
    /\ fault' = pairIdx
    /\ pc' = "aborted"
    /\ pairIdx' = pairIdx
    /\ exitStatus' = 1

\* line 174, iteration exhausted: main returns
FinishRun ==
    /\ pc = "pairs"
    /\ pairIdx > Len(Pairs)
    /\ pc' = "done"
    /\ exitStatus' = 0
    /\ UNCHANGED <<config, env_token, file, io, faults, unwritten, spliced, run, today, sent_tweet_ids, pairIdx,
                   tweets, idx, sent_count, loaded, startIds, sendLog, savedRun,
                   savedBefore, failedRun, failedBefore, fetched, errNotifs,
                   queryBuilds, fault, twitter_bearer_token>>

\* lines 175-195: the fetch returns tweets; today is read after it
FetchData ==
    /\ pc = "pairs"
    /\ pairIdx <= Len(Pairs)
    /\ \E r \in Responses(FetchQuery(config, pairIdx)) :
          /\ r.data # <<>>
          /\ tweets' = r
    /\ \E d \in Days :
          /\ d >= today
          /\ today' = d
    /\ fetched' = Append(fetched, <<pairIdx, FetchQuery(config, pairIdx)>>)
    /\ idx' = 1
    /\ sent_count' = 0
    /\ pc' = "item"
    /\ UNCHANGED <<config, env_token, file, io, faults, unwritten, spliced, run, sent_tweet_ids, pairIdx, loaded,
                   startIds, sendLog, savedRun, savedBefore, failedRun, failedBefore,
                   errNotifs, queryBuilds, fault, exitStatus, twitter_bearer_token>>

\* lines 175-191: the fetch returns no data, the loop continues
FetchNoData ==
    /\ pc = "pairs"
    /\ pairIdx <= Len(Pairs)
    /\ NoResponse \in Responses(FetchQuery(config, pairIdx))
    /\ fetched' = Append(fetched, <<pairIdx, FetchQuery(config, pairIdx)>>)
    /\ tweets' = NoResponse
    /\ pairIdx' = pairIdx + 1
    /\ UNCHANGED <<config, env_token, file, io, faults, unwritten, spliced, run, pc, today, sent_tweet_ids, idx,
                   sent_count, loaded, startIds, sendLog, savedRun, savedBefore,
                   failedRun, failedBefore, errNotifs, queryBuilds, fault, exitStatus, twitter_bearer_token>>

\* line 182: search_recent_tweets raises
FetchFault ==
    /\ pc = "pairs"
    /\ pairIdx <= Len(Pairs)
    /\ Abort
    /\ UNCHANGED <<config, env_token, file, io, faults, unwritten, spliced, run, today, sent_tweet_ids, tweets,
                   idx, sent_count, loaded, startIds, sendLog, savedRun, savedBefore,
                   failedRun, failedBefore, fetched, errNotifs, queryBuilds, twitter_bearer_token>>

\* line 196, iteration exhausted: on to the next pair
EndOfItems ==
    /\ pc = "item"
    /\ idx > Len(tweets.data)
    /\ pc' = "pairs"
    /\ pairIdx' = pairIdx + 1
    /\ UNCHANGED <<config, env_token, file, io, faults, unwritten, spliced, run, today, sent_tweet_ids, tweets,
                   idx, sent_count, loaded, startIds, sendLog, savedRun, savedBefore,
                   failedRun, failedBefore, fetched, errNotifs, queryBuilds, fault,
                   exitStatus, twitter_bearer_token>>

\* lines 197-198: break
CapBreak ==
    /\ pc = "item"
    /\ idx <= Len(tweets.data)
    /\ CapReached(sent_count)
    /\ pc' = "pairs"
    /\ pairIdx' = pairIdx + 1
    /\ UNCHANGED <<config, env_token, file, io, faults, unwritten, spliced, run, today, sent_tweet_ids, tweets,
                   idx, sent_count, loaded, startIds, sendLog, savedRun, savedBefore,
                   failedRun, failedBefore, fetched, errNotifs, queryBuilds, fault,
                   exitStatus, twitter_bearer_token>>

\* the verdict of lines 200-216 on the tweet under the loop
Verdict == SkipReason(CurTweet, tweets.users, sent_tweet_ids,
                      Filters(config, pairIdx), today)

\* lines 200-216: continue
SkipItem ==
    /\ pc = "item"
    /\ idx <= Len(tweets.data)
    /\ ~CapReached(sent_count)
    /\ Verdict # "none"
    /\ idx' = idx + 1
    /\ UNCHANGED <<config, env_token, file, io, faults, unwritten, spliced, run, pc, today, sent_tweet_ids,
                   pairIdx, tweets, sent_count, loaded, startIds, sendLog, savedRun,
                   savedBefore, failedRun, failedBefore, fetched, errNotifs,
                   queryBuilds, fault, exitStatus, twitter_bearer_token>>

\* lines 200-224: the tweet passes every check, its media URLs are collected
AcceptItem ==
    /\ pc = "item"
    /\ idx <= Len(tweets.data)
    /\ ~CapReached(sent_count)
    /\ Verdict = "none"
    /\ pc' = "send"
    /\ UNCHANGED <<config, env_token, file, io, faults, unwritten, spliced, run, today, sent_tweet_ids, pairIdx,
                   tweets, idx, sent_count, loaded, startIds, sendLog, savedRun,
                   savedBefore, failedRun, failedBefore, fetched, errNotifs,
                   queryBuilds, fault, exitStatus, twitter_bearer_token>>

\* lines 200-225: an attribute access on the tweet or its author raises before
\* the tweet is sent
ItemFault ==
    /\ pc = "item"
    /\ idx <= Len(tweets.data)
    /\ ~CapReached(sent_count)
    /\ Abort
    /\ UNCHANGED <<config, env_token, file, io, faults, unwritten, spliced, run, today, sent_tweet_ids, tweets,
                   idx, sent_count, loaded, startIds, sendLog, savedRun, savedBefore,
                   failedRun, failedBefore, fetched, errNotifs, queryBuilds, twitter_bearer_token>>

\* lines 122-136: the post succeeded, or its failure was caught and logged;
\* either way send_to_discord returns
SendRaisesOnFailure(delivered) ==
    IF delivered
    THEN pc' = "save" /\ fault' = fault /\ exitStatus' = exitStatus
    ELSE pc' = "aborted" /\ fault' = pairIdx /\ exitStatus' = 1
SendReturns(delivered) ==
    pc' = "save" /\ fault' = fault /\ exitStatus' = exitStatus

\* line 225: send_to_discord in normal mode; every post succeeds or fails on
\* its own
SendToDiscord ==
    /\ pc = "send"
    /\ sendLog' = Append(sendLog, [pair |-> pairIdx, id |-> CurTweet.id])
    /\ \E delivered \in BOOLEAN :
          /\ delivered \/ faults < MaxFaults
          /\ faults' = IF delivered THEN faults ELSE faults + 1
          /\ failedRun' = IF delivered THEN failedRun ELSE failedRun \cup {CurTweet.id}
          /\ SendReturns(delivered)
    /\ UNCHANGED <<config, env_token, file, io, unwritten, spliced, run, today, sent_tweet_ids, pairIdx,
                   tweets, idx, sent_count, loaded, startIds, savedRun, savedBefore,
                   failedBefore, fetched, errNotifs, queryBuilds, twitter_bearer_token>>

\* line 226: save_sent_tweet_id(tweet.id); every call opens and writes on its
\* own
SaveSentTweetId ==
    /\ pc = "save"
    /\ \E outcome \in WriteOutcomes(CurTweet.id) :
          LET ok == WriteOK(CurTweet.id, outcome)
          IN  /\ ok \/ faults < MaxFaults
              /\ faults' = IF ok THEN faults ELSE faults + 1
              /\ unwritten' = IF ok THEN unwritten ELSE unwritten \cup {CurTweet.id}
              /\ spliced' = IF ok /\ ~Clean(file) THEN spliced \cup {CurTweet.id}
                            ELSE spliced
              /\ file' = save_sent_tweet_id(file, CurTweet.id, outcome)
    /\ savedRun' = savedRun \cup {CurTweet.id}
    /\ pc' = "add"
    /\ UNCHANGED <<config, env_token, io, run, today, sent_tweet_ids, pairIdx, tweets,
                   idx, sent_count, loaded, startIds, sendLog, savedBefore, failedRun,
                   failedBefore, fetched, errNotifs, queryBuilds, fault, exitStatus, twitter_bearer_token>>

\* line 227: sent_tweet_ids.add(str(tweet.id))
AddSeenForgotten(seen, id) == seen
AddSeen(seen, id) == seen \cup {Str(id)}

\* lines 227-228, and back to the head of the inner loop
AddToSeen ==
    /\ pc = "add"
    /\ sent_tweet_ids' = AddSeen(sent_tweet_ids, CurTweet.id)
    /\ sent_count' = sent_count + 1
    /\ idx' = idx + 1
    /\ pc' = "item"
    /\ UNCHANGED <<config, env_token, file, io, faults, unwritten, spliced, run, today, pairIdx, tweets, loaded,
                   startIds, sendLog, savedRun, savedBefore, failedRun, failedBefore,
                   fetched, errNotifs, queryBuilds, fault, exitStatus, twitter_bearer_token>>

\* the process is killed at any point of a run
Crash ==
    /\ pc \in Running
    /\ pc' = "crashed"
    /\ exitStatus' = 137
    /\ UNCHANGED <<config, env_token, file, io, faults, unwritten, spliced, run, today, sent_tweet_ids, pairIdx,
                   tweets, idx, sent_count, loaded, startIds, sendLog, savedRun,
                   savedBefore, failedRun, failedBefore, fetched, errNotifs,
                   queryBuilds, fault, twitter_bearer_token>>

Next ==
    \/ StartRun
    \/ LoadConfigFails
    \/ LoadConfigAndIds
    \/ NoToken
    \/ HaveToken
    \/ ClientReady
    \/ ClientFails
    \/ NotifyFatal
    \/ FatalExit
    \/ FinishRun
    \/ FetchData
    \/ FetchNoData
    \/ FetchFault
    \/ EndOfItems
    \/ CapBreak
    \/ SkipItem
    \/ AcceptItem
    \/ ItemFault
    \/ SendToDiscord
    \/ SaveSentTweetId
    \/ AddToSeen
    \/ Crash

Spec == Init /\ [][Next]_vars

-----------------------------------------------------------------------------
(* The Seen-Set Store alone: writes to an absent record, then a load *)

RoundTripIds == {1, 2, 12, 21, 120}

InitRoundTrip ==
    /\ config = [twitter_bearer_token |-> None, notifications_webhook_url |-> None,
                 global_filters |-> <<>>, keyword_channels |-> <<>>]
    /\ env_token = None
    /\ file = NoFile
    /\ io = [read |-> TRUE]
    /\ faults = 0
    /\ unwritten = {}
    /\ spliced = {}
    /\ run = 0
    /\ pc = "writing"
    /\ today = 1
    /\ sent_tweet_ids = {}
    /\ pairIdx = 0
    /\ tweets = NoResponse
    /\ idx = 0
    /\ sent_count = 0
    /\ loaded = {}
    /\ startIds = {}
    /\ sendLog = <<>>
    /\ savedRun = {}
    /\ savedBefore = {}
    /\ failedRun = {}
    /\ failedBefore = {}
    /\ fetched = <<>>
    /\ errNotifs = 0
    /\ queryBuilds = 0
    /\ fault = 0
    /\ exitStatus = -1
    /\ twitter_bearer_token = None

\* save_sent_tweet_id(id) on any identifier, written before or not; idx counts
\* the calls
WriteId ==
    /\ pc = "writing"
    /\ idx < MaxWrites
    /\ \E id \in RoundTripIds :
          /\ file' = save_sent_tweet_id(file, id, OkWrite(id))
          /\ savedRun' = savedRun \cup {id}
    /\ idx' = idx + 1
    /\ UNCHANGED <<config, env_token, io, faults, unwritten, spliced, run, pc, today, sent_tweet_ids, pairIdx,
                   tweets, sent_count, loaded, startIds, sendLog, savedBefore,
                   failedRun, failedBefore, fetched, errNotifs, queryBuilds, fault,
                   exitStatus, twitter_bearer_token>>

\* load_sent_tweet_ids()
Reload ==
    /\ pc = "writing"
    /\ sent_tweet_ids' = load_sent_tweet_ids(file, io.read)
    /\ loaded' = load_sent_tweet_ids(file, io.read)
    /\ pc' = "reloaded"
    /\ UNCHANGED <<config, env_token, file, io, faults, unwritten, spliced, run, today, pairIdx, tweets, idx,
                   sent_count, startIds, sendLog, savedRun, savedBefore, failedRun,
                   failedBefore, fetched, errNotifs, queryBuilds, fault, exitStatus,
                   twitter_bearer_token>>

NextRoundTrip ==
    \/ WriteId
    \/ Reload

SpecRoundTrip == InitRoundTrip /\ [][NextRoundTrip]_vars

-----------------------------------------------------------------------------
(* Properties *)

StrIds(S) == {Str(x) : x \in S}

\* the identifiers of the normal-mode sends of this run for pair p, in order
RECURSIVE SentOfPair(_, _)
SentOfPair(log, p) ==
    IF log = <<>> THEN <<>>
    ELSE IF Head(log).pair = p THEN <<Head(log).id>> \o SentOfPair(Tail(log), p)
    ELSE SentOfPair(Tail(log), p)

\* how many sends of this run carried identifier x
SendsOf(x) == Cardinality({k \in 1..Len(sendLog) : sendLog[k].id = x})

\* C7: starting from an absent record, save_sent_tweet_id on any identifiers,
\* in any order and with repetitions, followed by load_sent_tweet_ids yields
\* exactly the written identifiers as strings.
C7_RoundTrip ==
    pc = "reloaded" => sent_tweet_ids = StrIds(savedRun)

\* three writes of which two are the same identifier, then a load: the set has
\* two elements
C7_Witness ==
    /\ pc = "reloaded"
    /\ idx = 3
    /\ Cardinality(savedRun) = 2
    /\ Cardinality(sent_tweet_ids) = 2


\* C1 as stated: an identifier for which an earlier run called
\* save_sent_tweet_id is passed to the Notification Sender by no later run,
\* read and write failures included.
C1_RecordedNeverSentAgain ==
    \A x \in SentIds : x \notin savedBefore

\* C1 amended: an identifier that the durable record holds when a run starts
\* is not passed to the Notification Sender by that run, provided the run's
\* load_sent_tweet_ids read the record (after a failed write, or a write that
\* landed on the remainder of a failed one, the record does not hold the
\* identifier, after a failed read the run starts from the empty set, and in
\* these cases the identifier may be sent again).
C1_DurableNotSentAgain ==
    io.read => \A x \in SentIds : x \notin startIds

\* a later run fetched, on its creation day, a tweet that an earlier run had
\* recorded, and skipped it
C1_Witness ==
    /\ run >= 2
    /\ io.read
    /\ pc = "item"
    /\ idx > 1
    /\ tweets.data[idx - 1].id \in savedBefore \cap startIds
    /\ tweets.data[idx - 1].created_at = today
    /\ tweets.data[idx - 1].id \notin SentIds

\* C2 as stated: at every point of a run the in-memory set is what
\* load_sent_tweet_ids returned united with every identifier sent so far.
C2_SeenIsLoadedPlusSent ==
    pc \in Running => sent_tweet_ids = loaded \cup StrIds(SentIds)

\* C2 amended: at every point of a run the in-memory set united with the
\* identifier in flight (sent at line 225, not yet added at line 227) is what
\* load_sent_tweet_ids returned united with every identifier sent so far; at
\* the head of the inner loop nothing is in flight and the two sets are equal;
\* and no identifier is sent twice in one run, for one pair or for two,
\* whether the writes of save_sent_tweet_id succeed or fail.
C2_SeenSetInvariant ==
    /\ pc \in Running =>
          /\ (pc \in {"save", "add"} =>
                /\ Str(CurTweet.id) \notin sent_tweet_ids
                /\ sendLog[Len(sendLog)].id = CurTweet.id
                /\ sent_tweet_ids \cup {Str(CurTweet.id)} = loaded \cup StrIds(SentIds))
          /\ (pc \notin {"save", "add"} => sent_tweet_ids = loaded \cup StrIds(SentIds))
    /\ \A x \in SentIds : SendsOf(x) = 1

\* the write of the identifier sent for the first pair failed, the second
\* pair's response repeated that identifier, and the run ended
C2_Witness ==
    /\ pc = "done"
    /\ Len(fetched) = 2
    /\ \E x \in unwritten :
          /\ sendLog[1] = [pair |-> 1, id |-> x]
          /\ ~RecordHolds(file, x)
          /\ \E k \in 1..Len(tweets.data) : tweets.data[k].id = x
    /\ \E k \in 1..Len(sendLog) : sendLog[k].pair = 2
    /\ tweets.data = RMixData

-----------------------------------------------------------------------------
(* The dispatch cap *)

Min(a, b) == IF a < b THEN a ELSE b

\* the pair whose response the variable tweets holds
TweetsPair == fetched[Len(fetched)][1]

\* the in-memory set as it was when pair p was fetched
SeenAtFetch(p) ==
    loaded \cup StrIds({sendLog[k].id : k \in {j \in 1..Len(sendLog) : sendLog[j].pair < p}})

\* the positions of the response that hold a tweet that is unseen, same-day
\* and passes the filters of pair p
EligibleTweets(p) ==
    LET seen == SeenAtFetch(p)
        f == Filters(config, p)
    IN  {k \in 1..Len(tweets.data) :
            SkipReason(tweets.data[k], tweets.users, seen, f, today) = "none"}

\* the positions of the eligible tweets, a repeated identifier counted once
EligiblePos(p) ==
    LET E == EligibleTweets(p)
    IN  {k \in E : \A j \in E : j < k => tweets.data[j].id # tweets.data[k].id}

\* the identifiers at the positions E from position k on, in provider order
RECURSIVE IdsFrom(_, _)
IdsFrom(E, k) ==
    IF k > Len(tweets.data) THEN <<>>
    ELSE IF k \in E THEN <<tweets.data[k].id>> \o IdsFrom(E, k + 1)
    ELSE IdsFrom(E, k + 1)

EligibleIds(p) == IdsFrom(EligiblePos(p), 1)

\* C3: at most 5 identifiers are sent per pair and run; while the inner loop
\* runs, the identifiers sent for the pair are the eligible ones before the
\* loop position, in provider order; when the loop has ended they are the
\* first 5 eligible ones (all of them if fewer), and the later eligible ones
\* were neither sent nor passed to save_sent_tweet_id nor added to the set.
C3_DispatchCap ==
    /\ \A p \in 1..Len(Pairs) : Len(SentOfPair(sendLog, p)) <= SendCap
    /\ pc = "item" =>
          SentOfPair(sendLog, pairIdx)
             = IdsFrom({k \in EligiblePos(pairIdx) : k < idx}, 1)
    /\ (pc \in {"pairs", "done"} /\ tweets.data # <<>>) =>
          LET all == EligibleIds(TweetsPair)
              first == SubSeq(all, 1, Min(SendCap, Len(all)))
              rest == SubSeq(all, Len(first) + 1, Len(all))
          IN  /\ SentOfPair(sendLog, TweetsPair) = first
              /\ \A k \in 1..Len(rest) :
                    /\ rest[k] \notin SentIds
                    /\ rest[k] \notin savedRun
                    /\ Str(rest[k]) \notin sent_tweet_ids
                    /\ RecordHolds(file, rest[k]) => rest[k] \in startIds

\* ten eligible tweets were fetched for the pair, the loop broke at the cap:
\* five were sent and recorded in the file, five were left
C3_Witness ==
    /\ pc = "pairs"
    /\ tweets.data = RCapData
    /\ Cardinality(EligiblePos(TweetsPair)) = 10
    /\ SentOfPair(sendLog, TweetsPair) = <<7, 2, 9, 4, 1>>
    /\ savedRun = {7, 2, 9, 4, 1}
    /\ IdsOf(file) = {7, 2, 9, 4, 1}
    /\ sent_tweet_ids = StrIds({7, 2, 9, 4, 1})


-----------------------------------------------------------------------------
(* Delivery failures and crashes *)

\* C4: when the delivery of an identifier fails, send_to_discord returns and
\* the run goes on to save_sent_tweet_id (only a kill of the process stops
\* it); the record holds the identifier from then on unless that write fails
\* or lands on the unterminated remainder of an earlier failed write, the
\* identifier is added to the in-memory set, the send counts toward the cap
\* of the pair, the identifier is sent once in the run, and a later run that
\* read a record holding it does not send it.
C4_FailedDeliveryIsRecorded ==
    /\ \A x \in failedRun :
          /\ x \notin savedRun => (pc \in {"save", "crashed"} /\ CurTweet.id = x)
          /\ (x \in savedRun /\ x \notin unwritten \cup spliced) => RecordHolds(file, x)
          /\ (x \in savedRun /\ Str(x) \notin sent_tweet_ids) =>
                (pc \in {"add", "crashed"} /\ CurTweet.id = x)
          /\ SendsOf(x) = 1
    /\ pc = "item" => sent_count = Len(SentOfPair(sendLog, pairIdx))
    /\ sent_count <= SendCap
    /\ io.read => \A x \in failedBefore \cap startIds : x \notin SentIds

\* the first delivery of the first run failed, the later ones succeeded: the
\* five sends reached the cap and were recorded; the second run was offered
\* the same ten tweets and sent none of the five again
C4_Witness ==
    /\ run = 2
    /\ io.read
    /\ pc = "pairs"
    /\ tweets.data = RCapData
    /\ failedBefore = {7}
    /\ savedBefore = {7, 2, 9, 4, 1}
    /\ savedBefore \subseteq startIds
    /\ Len(sendLog) >= 4
    /\ SentIds \cap savedBefore = {}

\* C5: in a run whose writes do not fail, every identifier passed to the
\* Notification Sender is in the durable record, except at most the one in
\* flight (sent at line 225, save_sent_tweet_id of line 226 not yet done); a
\* kill of the process at any point leaves the record in that state.  The
\* code breaks it: the first line a run appends after an earlier run's write
\* failed part-way joins the remainder of that write.
C5_AtMostInFlightUnrecorded ==
    unwritten = {} =>
       \A k \in 1..Len(sendLog) :
          ~RecordHolds(file, sendLog[k].id) =>
             /\ k = Len(sendLog)
             /\ pc \in {"save", "crashed"}
             /\ CurTweet.id = sendLog[k].id

-----------------------------------------------------------------------------
(* Filters *)

\* the value of filter key k for the pair under the loop: the channel's
\* user_filters first, then global_filters, then the default
EffectiveFilter(k, default) ==
    IF k \in DOMAIN Pairs[pairIdx].user_filters THEN Pairs[pairIdx].user_filters[k]
    ELSE IF k \in DOMAIN config.global_filters THEN config.global_filters[k]
    ELSE default

\* C6: the tweet passed to the Notification Sender was created on the current
\* date, its identifier is not in the in-memory set, its author is in the
\* expansion index, the author's lowercase handle is in the lowercased
\* whitelist when that is not empty and is not in the lowercased blacklist,
\* the author's follower count (0 when absent) is not below the effective
\* minimum, and the author is verified when verified-only is in effect.
C6_SentTweetPassesFilters ==
    pc \in {"send", "save", "add"} =>
       LET t == CurTweet
           wl == {Lower(u) : u \in Elems(EffectiveFilter("whitelist_usernames", <<>>))}
           bl == {Lower(u) : u \in Elems(EffectiveFilter("blacklist_usernames", <<>>))}
       IN  /\ t.created_at = today
           /\ Str(t.id) \notin sent_tweet_ids
           /\ t.author_id \in tweets.users
           /\ wl # {} => Lower(UserTable[t.author_id].username) \in wl
           /\ Lower(UserTable[t.author_id].username) \notin bl
           /\ Get(UserTable[t.author_id].public_metrics, "followers_count", 0)
                 >= EffectiveFilter("min_followers", 0)
           /\ EffectiveFilter("only_verified", FALSE) => UserTable[t.author_id].verified

\* global min_followers 100, channel min_followers 500: the same-day, unseen
\* tweet of an author with 300 followers was skipped, and a later tweet of the
\* response is being sent
C6_Witness ==
    /\ pc = "send"
    /\ config.global_filters = [min_followers |-> 100]
    /\ Pairs[pairIdx].user_filters = [min_followers |-> 500]
    /\ idx > 1
    /\ UserTable[tweets.data[1].author_id].public_metrics.followers_count = 300
    /\ tweets.data[1].created_at = today
    /\ Str(tweets.data[1].id) \notin sent_tweet_ids
    /\ tweets.data[1].id \notin SentIds

-----------------------------------------------------------------------------
(* Startup *)

\* the credential by the rule of the specification: the environment value
\* when it is set to a non-empty string, otherwise the configuration value
Credential ==
    IF env_token \notin {None, ""} THEN env_token ELSE config.twitter_bearer_token

\* C8: past line 159 the token is the credential above; when there is none, or
\* when the client cannot be built, the run sends one error notification if
\* notifications_webhook_url is configured (none otherwise) and then exits
\* with status 1 (unless it is killed first), and has made no fetch, no
\* normal-mode send and no call of save_sent_tweet_id; no other path sends an
\* error notification.
C8_CredentialsAndFatalStartup ==
    /\ pc \in (Running \ {"config", "creds"}) \cup {"done", "exited", "aborted"} =>
          twitter_bearer_token = Credential
    /\ Credential \in {None, ""} =>
          pc \in {"idle", "config", "no_config", "creds", "notify", "exit1",
                  "exited", "crashed"}
    /\ errNotifs > 0 => pc \in {"exit1", "exited", "crashed"}
    /\ pc \in {"exit1", "exited"} =>
          /\ errNotifs = (IF config.notifications_webhook_url \in {None, ""} THEN 0 ELSE 1)
          /\ fetched = <<>>
          /\ sendLog = <<>>
          /\ savedRun = {}
          /\ IdsOf(file) = startIds
    /\ pc = "exited" => exitStatus = 1
    /\ pc \in {"notify", "exit1"} => exitStatus = -1
    /\ errNotifs <= 1

\* no token in the environment (set, but empty) nor in the configuration, the
\* notifications webhook configured: one error notification, exit
C8_Witness ==
    /\ pc = "exited"
    /\ env_token = ""
    /\ config.twitter_bearer_token = None
    /\ config.notifications_webhook_url = "hook0"
    /\ errNotifs = 1
    /\ exitStatus = 1

-----------------------------------------------------------------------------
(* Faults inside the loop *)

\* C9: once the fetch or the processing of an item of a pair has raised, the
\* run is over: it ended with a traceback, no pair after the faulting one was
\* fetched or sent to, no error notification was sent, and the durable record
\* holds every identifier sent before the fault whose write neither failed
\* nor landed on the unterminated remainder of an earlier failed write.
C9_FaultAbortsRun ==
    fault # 0 =>
       /\ pc = "aborted"
       /\ exitStatus = 1
       /\ pairIdx = fault
       /\ errNotifs = 0
       /\ \A k \in 1..Len(fetched) : fetched[k][1] <= fault
       /\ \A k \in 1..Len(sendLog) : sendLog[k].pair <= fault
       /\ \A x \in SentIds \ (unwritten \cup spliced) : RecordHolds(file, x)
       /\ \A x \in SentIds : x \in savedRun

\* the first of two pairs raised after a send: the second pair was never
\* fetched and the sent identifier is in the record
C9_Witness ==
    /\ pc = "aborted"
    /\ fault = 1
    /\ Len(Pairs) = 2
    /\ Len(fetched) = 1
    /\ sendLog # <<>>
    /\ unwritten = {}
    /\ \A x \in SentIds : RecordHolds(file, x)

-----------------------------------------------------------------------------
(* Order of the pipeline *)

\* C10 as stated: the Query Builder is invoked exactly once for every pair
\* that is fetched.
C10_QueryBuilderOncePerPair ==
    queryBuilds = Len(fetched)

\* C10 amended: build_twitter_query is never invoked; the pairs are fetched in
\* configuration order, each once and with its configured query string
\* unchanged; a tweet is sent only for a fetched pair and only when the checks
\* of lines 200-216 found it unseen and passing the filters; save_sent_tweet_id
\* is called only for an identifier already sent, and the identifier enters
\* the in-memory set only after that call.
C10_PipelineOrder ==
    /\ queryBuilds = 0
    /\ \A k \in 1..Len(fetched) :
          /\ fetched[k][1] = k
          /\ fetched[k][2] = config.keyword_channels[k].query
    /\ pc \in {"item", "send", "save", "add"} =>
          (Len(fetched) = pairIdx /\ tweets.data # <<>>)
    /\ \A k \in 1..Len(sendLog) : sendLog[k].pair <= Len(fetched)
    /\ pc = "send" =>
          /\ Verdict = "none"
          /\ CurTweet.id \notin SentIds
          /\ CurTweet.id \notin savedRun
    /\ pc = "save" =>
          /\ sendLog[Len(sendLog)] = [pair |-> pairIdx, id |-> CurTweet.id]
          /\ CurTweet.id \notin savedRun
          /\ Str(CurTweet.id) \notin sent_tweet_ids
    /\ pc = "add" =>
          /\ CurTweet.id \in savedRun
          /\ Str(CurTweet.id) \notin sent_tweet_ids
    /\ savedRun \subseteq SentIds
    /\ sent_tweet_ids \ loaded \subseteq StrIds(savedRun)

\* the second pair of a run: its tweet was sent, then passed to
\* save_sent_tweet_id, and is about to enter the in-memory set
C10_Witness ==
    /\ pc = "add"
    /\ pairIdx = 2
    /\ fetched = <<<<1, "rust">>, <<2, "#tla">>>>
    /\ sendLog[Len(sendLog)].id = CurTweet.id
    /\ CurTweet.id \in savedRun
    /\ Str(CurTweet.id) \notin sent_tweet_ids

====
